---------------------------- MODULE Spec2Model ----------------------------
(***************************************************************************)
(* A model of ComfyUI-AutoNotes (src/autonotes.py): the trigger-condition  *)
(* matcher, the note selection, and the per-user JSON store with its HTTP  *)
(* handlers.                                                               *)
(*                                                                         *)
(* Representation.                                                         *)
(*   Optional[T]   None is <<>>, a present value x is <<x>>.               *)
(*   str           a sequence of one-character strings when the code looks *)
(*                 inside it (substring tests), an atomic string when the  *)
(*                 code only compares it for equality (ids, node types,    *)
(*                 attribute names).                                       *)
(*   dict          a sequence of [key, val] entries in insertion order     *)
(*                 (Python dicts iterate in insertion order).              *)
(***************************************************************************)
EXTENDS Integers, Sequences, FiniteSets, TLC

VARIABLES
    cond, ctx, result,        \* one evaluation of _check_trigger_condition
    store, mode, shown,       \* one call of get_notes_for_display
    notesFile, foldersFile,   \* notes.json and folders.json of one user
    pc,                       \* where each request handler stands
    notes, folders,           \* each handler's AutoNotesManager: its two dicts
    path,                     \* request.match_info of a running delete_folder
    writes,                   \* the outcome of each file write it has made
    last,                     \* the request served last: what it was, the
                              \* response, its writes, its manager at the end
    nextNote, nextFolder,     \* how many uuid4 values were drawn for each kind
    requests, faults          \* requests begun, I/O faults that occurred

evalVars   == <<cond, ctx, result>>
selectVars == <<store, mode, shown>>
fileVars   == <<notesFile, foldersFile>>
storeVars  == <<notesFile, foldersFile, pc, notes, folders, path, writes,
                last, nextNote, nextFolder, requests, faults>>
vars       == <<cond, ctx, result, store, mode, shown, notesFile, foldersFile,
                pc, notes, folders, path, writes, last, nextNote, nextFolder,
                requests, faults>>

---------------------------------------------------------------------------
(* Optional values *)

None == <<>>

Some(x) == <<x>>

The(o) == o[1]

Range(s) == {s[i] : i \in DOMAIN s}

(* All sequences over S of length at most n. *)
SeqsUpTo(S, n) == UNION {[1..k -> S] : k \in 0..n}

---------------------------------------------------------------------------
(* Bounds of the model *)

\* longest node_types list of a condition
MaxTypes == 2

\* longest attribute_values / workflow_names list of a condition
MaxVals == 2

\* most notes in the store handed to get_notes_for_display
MaxShownNotes == 2

\* most trigger conditions on one of those notes
MaxConds == 2

\* requests in flight at once (each builds its own AutoNotesManager)
NumHandlers == 2

\* requests begun in one behaviour
MaxRequests == 2

\* file writes that fail in one behaviour
MaxFaults == 1

---------------------------------------------------------------------------
(* Python helpers *)

(* `needle in hay` on two str values. *)
Contains(hay, needle) ==
    \E i \in 0..(Len(hay) - Len(needle)) :
        SubSeq(hay, i + 1, i + Len(needle)) = needle

DigitChars == <<"0", "1", "2", "3", "4", "5", "6", "7", "8", "9">>

RECURSIVE Digits(_)
Digits(n) ==
    IF n < 10 THEN <<DigitChars[n + 1]>>
    ELSE Digits(n \div 10) \o <<DigitChars[(n % 10) + 1]>>

(* Attribute values are of type Any: here a str or a non-negative int. *)
StrVal(s) == [isInt |-> FALSE, n |-> 0, s |-> s]

IntVal(n) == [isInt |-> TRUE, n |-> n, s |-> <<>>]

(* str(v) *)
Str(v) == IF v.isInt THEN Digits(v.n) ELSE v.s

(* `k in d` for a dict d and an Optional key k (None is never a key). *)
HasKey(d, k) == \E i \in DOMAIN d : Some(d[i].key) = k

(* d[k] for a key known to be present. *)
Lookup(d, k) == d[CHOOSE i \in DOMAIN d : Some(d[i].key) = k].val

(* any(val in s for val in vals) *)
AnyContained(vals, s) == \E i \in DOMAIN vals : Contains(s, vals[i])

---------------------------------------------------------------------------
(* TriggerCondition *)

TriggerCondition(type, node_types, node_type, attribute_name, attribute_values, workflow_names) ==
    [type |-> type, node_types |-> node_types, node_type |-> node_type,
     attribute_name |-> attribute_name, attribute_values |-> attribute_values,
     workflow_names |-> workflow_names]

(* _check_trigger_condition, branch by branch.  A branch whose `if` fails, *)
(* and an unknown type, fall through to the final `return False`.          *)
CheckNodeSelected(condition, selected_node_type) ==
    /\ selected_node_type # None
    /\ condition.node_types # None
    /\ The(selected_node_type) \in Range(The(condition.node_types))

CheckNodeSelectedAttribute(condition, selected_node_type, selected_node_attributes) ==
    IF /\ selected_node_type = condition.node_type
       /\ selected_node_attributes # None
       /\ HasKey(The(selected_node_attributes), condition.attribute_name)
       /\ condition.attribute_values # None
    THEN AnyContained(The(condition.attribute_values),
                      Str(Lookup(The(selected_node_attributes),
                                 condition.attribute_name)))
    ELSE FALSE

CheckNodeInWorkflow(condition, workflow_nodes) ==
    IF workflow_nodes # None /\ condition.node_types # None
    THEN \E i \in DOMAIN The(condition.node_types) :
             HasKey(The(workflow_nodes), Some(The(condition.node_types)[i]))
    ELSE FALSE

CheckNodeInWorkflowAttributeAlwaysValues(condition, workflow_nodes) ==
    IF /\ workflow_nodes # None
       /\ condition.node_type # None
       /\ condition.attribute_name # None
    THEN IF HasKey(The(workflow_nodes), condition.node_type)
         THEN LET node_attrs == Lookup(The(workflow_nodes), condition.node_type)
              IN  IF HasKey(node_attrs, condition.attribute_name)
                  THEN IF condition.attribute_values # None
                       THEN AnyContained(
                                The(condition.attribute_values),
                                Str(Lookup(node_attrs, condition.attribute_name)))
                       ELSE TRUE
                  ELSE FALSE
         ELSE FALSE
    ELSE FALSE

CheckNodeInWorkflowAttribute(condition, workflow_nodes) ==
    IF /\ workflow_nodes # None
       /\ condition.node_type # None
       /\ condition.attribute_name # None
    THEN IF HasKey(The(workflow_nodes), condition.node_type)
         THEN LET node_attrs == Lookup(The(workflow_nodes), condition.node_type)
              IN  IF HasKey(node_attrs, condition.attribute_name)
                  THEN IF /\ condition.attribute_values # None
                          /\ Len(The(condition.attribute_values)) > 0
                       THEN AnyContained(
                                The(condition.attribute_values),
                                Str(Lookup(node_attrs, condition.attribute_name)))
                       ELSE TRUE
                  ELSE FALSE
         ELSE FALSE
    ELSE FALSE

CheckWorkflowName(condition, workflow_name) ==
    IF workflow_name # None /\ condition.workflow_names # None
    THEN AnyContained(The(condition.workflow_names), The(workflow_name))
    ELSE FALSE

CheckTriggerCondition(condition, selected_node_type, selected_node_attributes, workflow_name, workflow_nodes) ==
    IF condition.type = "node_selected"
    THEN CheckNodeSelected(condition, selected_node_type)
    ELSE IF condition.type = "node_selected_attribute"
    THEN CheckNodeSelectedAttribute(condition, selected_node_type,
                                    selected_node_attributes)
    ELSE IF condition.type = "node_in_workflow"
    THEN CheckNodeInWorkflow(condition, workflow_nodes)
    ELSE IF condition.type = "node_in_workflow_attribute"
    THEN CheckNodeInWorkflowAttribute(condition, workflow_nodes)
    ELSE IF condition.type = "workflow_name"
    THEN CheckWorkflowName(condition, workflow_name)
    ELSE FALSE

---------------------------------------------------------------------------
(* The inputs of the matcher *)

NodeTypes == {"A", "B"}

\* "seed" is an attribute name no context carries
AttrNames == {"res", "seed"}

\* the strings conditions list: "5" and "12"
Needles == {<<"5">>, <<"1", "2">>}

\* the attribute values contexts carry: "512" and the int 12
AttrVals == {StrVal(<<"5", "1", "2">>), IntVal(12)}

AttrMaps == {<<>>} \cup {<<[key |-> "res", val |-> v]>> : v \in AttrVals}

WorkflowNodeMaps ==
    {<<>>}
    \cup {<<[key |-> t, val |-> m]>> : t \in NodeTypes, m \in AttrMaps}
    \cup {<<[key |-> "A", val |-> m1], [key |-> "B", val |-> m2]>> :
              m1 \in AttrMaps, m2 \in AttrMaps}

WorkflowNames == {<<"1", "2">>, <<"5", "x">>}

Opt(S) == {None} \cup {Some(x) : x \in S}

Context(selected_node_type, selected_node_attributes, workflow_name, workflow_nodes) ==
    [selected_node_type |-> selected_node_type,
     selected_node_attributes |-> selected_node_attributes,
     workflow_name |-> workflow_name,
     workflow_nodes |-> workflow_nodes]

Contexts ==
    {Context(t, a, n, w) :
        t \in Opt(NodeTypes), a \in Opt(AttrMaps),
        n \in Opt(WorkflowNames), w \in Opt(WorkflowNodeMaps)}

TypeLists == Opt(SeqsUpTo(NodeTypes, MaxTypes))

ValueLists == Opt(SeqsUpTo(Needles, MaxVals))

(* Conditions of each kind; the fields a kind does not read are None, as   *)
(* the dataclass defaults leave them.                                      *)
Conditions ==
    {TriggerCondition("node_selected", ts, None, None, None, None) :
        ts \in TypeLists}
    \cup {TriggerCondition("node_selected_attribute", None, t, a, vs, None) :
        t \in Opt(NodeTypes), a \in Opt(AttrNames), vs \in ValueLists}
    \cup {TriggerCondition("node_in_workflow", ts, None, None, None, None) :
        ts \in TypeLists}
    \cup {TriggerCondition("node_in_workflow_attribute", None, t, a, vs, None) :
        t \in Opt(NodeTypes), a \in Opt(AttrNames), vs \in ValueLists}
    \cup {TriggerCondition("workflow_name", None, None, None, None, ns) :
        ns \in ValueLists}
    \cup {TriggerCondition("bogus", None, None, None, None, None)}

Evaluate(c, x) ==
    CheckTriggerCondition(c, x.selected_node_type, x.selected_node_attributes,
                          x.workflow_name, x.workflow_nodes)

---------------------------------------------------------------------------
(* Note, and get_notes_for_display *)

Note(uuid, folder_uuid, content, format_style, trigger_conditions, pinned, name, tags) ==
    [uuid |-> uuid, folder_uuid |-> folder_uuid, content |-> content,
     format_style |-> format_style, trigger_conditions |-> trigger_conditions,
     pinned |-> pinned, name |-> name, tags |-> tags]

(* list(d.values()) *)
Values(d) == [i \in DOMAIN d |-> d[i].val]

(* The inner loop over note.trigger_conditions, from condition j on: the   *)
(* first condition that holds appends the note and breaks.                 *)
RECURSIVE ConditionLoop(_, _, _, _, _, _, _)
ConditionLoop(note, j, matching_notes, selected_node_type, selected_node_attributes, workflow_name, workflow_nodes) ==
    IF j > Len(note.trigger_conditions) THEN matching_notes
    ELSE IF CheckTriggerCondition(note.trigger_conditions[j],
                                  selected_node_type, selected_node_attributes,
                                  workflow_name, workflow_nodes)
    THEN Append(matching_notes, note)
    ELSE ConditionLoop(note, j + 1, matching_notes, selected_node_type,
                       selected_node_attributes, workflow_name, workflow_nodes)

VisitNoteNoContinue(note, matching_notes, selected_node_type, selected_node_attributes, workflow_name, workflow_nodes) ==
    ConditionLoop(note, 1,
                  IF note.pinned THEN Append(matching_notes, note)
                  ELSE matching_notes,
                  selected_node_type, selected_node_attributes, workflow_name,
                  workflow_nodes)

(* One iteration of the outer loop: a pinned note is appended and the      *)
(* iteration ends (continue); otherwise the conditions decide.             *)
VisitNote(note, matching_notes, selected_node_type, selected_node_attributes, workflow_name, workflow_nodes) ==
    IF note.pinned THEN Append(matching_notes, note)
    ELSE ConditionLoop(note, 1, matching_notes, selected_node_type,
                       selected_node_attributes, workflow_name, workflow_nodes)

RECURSIVE NoteLoop(_, _, _, _, _, _, _)
NoteLoop(all_notes, i, matching_notes, selected_node_type, selected_node_attributes, workflow_name, workflow_nodes) ==
    IF i > Len(all_notes) THEN matching_notes
    ELSE NoteLoop(all_notes, i + 1,
                  VisitNote(all_notes[i].val, matching_notes, selected_node_type,
                            selected_node_attributes, workflow_name,
                            workflow_nodes),
                  selected_node_type, selected_node_attributes, workflow_name,
                  workflow_nodes)

GetNotesForDisplay(all_notes, m, selected_node_type, selected_node_attributes, workflow_name, workflow_nodes) ==
    IF m = "all" THEN Values(all_notes)
    ELSE NoteLoop(all_notes, 1, <<>>, selected_node_type, selected_node_attributes,
                  workflow_name, workflow_nodes)

---------------------------------------------------------------------------
(* The inputs of the selection *)

NoteIds == <<"n1", "n2", "n3", "n4", "n5", "n6">>

Modes == {"all", "automatic", "auto"}

CondPool ==
    {TriggerCondition("node_selected", Some(<<"A">>), None, None, None, None),
     TriggerCondition("workflow_name", None, None, None, None,
                      Some(<<<<"5">>>>))}

SelectContexts ==
    {Context(None, None, None, None),
     Context(Some("A"), None, None, None),
     Context(Some("A"), None, Some(<<"5", "x">>), None),
     Context(Some("B"), None, Some(<<"1", "2">>), Some(<<>>))}

(* A store of k notes: the i-th entry is keyed by the i-th id and holds a  *)
(* note of that uuid with conditions cs[i], pinned as ps[i] says.          *)
SelectStore(k, cs, ps) ==
    [i \in 1..k |->
        [key |-> NoteIds[i],
         val |-> Note(NoteIds[i], None, <<>>, "plaintext", cs[i], ps[i], "a",
                      Some(<<>>))]]

---------------------------------------------------------------------------
(* The store: dicts, files, load and save *)

Folder(uuid, parent_uuid, name) ==
    [uuid |-> uuid, parent_uuid |-> parent_uuid, name |-> name]

Keys(d) == {d[i].key : i \in DOMAIN d}

(* d[k] = v: an existing key keeps its place, a new one goes last. *)
Put(d, k, v) ==
    IF k \in Keys(d)
    THEN [i \in DOMAIN d |-> IF d[i].key = k THEN [key |-> k, val |-> v]
                             ELSE d[i]]
    ELSE Append(d, [key |-> k, val |-> v])

(* del d[k] *)
Del(d, k) == LET Keep(e) == e.key # k IN SelectSeq(d, Keep)

(* d.get(k, default) *)
Get(d, k, default) == IF HasKey(d, Some(k)) THEN Lookup(d, Some(k)) ELSE default

(* A file is missing, holds a JSON array, or holds what a write that       *)
(* failed after open(..., 'w') left: text json.load rejects.               *)
MissingFile == [state |-> "missing", data |-> <<>>]

CorruptFile == [state |-> "corrupt", data |-> <<>>]

JsonFile(data) == [state |-> "ok", data |-> data]

(* Note.__post_init__, run by the constructor: tags None becomes []. *)
PostInit(note) ==
    IF note.tags = None THEN [note EXCEPT !.tags = Some(<<>>)] ELSE note

NoteFromJsonNoConditions(note_data) ==
    PostInit([note_data EXCEPT !.trigger_conditions = <<>>])

(* One element of the notes array to a Note: its conditions are rebuilt    *)
(* one by one by the TriggerCondition constructor, then the Note is built. *)
NoteFromJson(note_data) ==
    PostInit([note_data EXCEPT !.trigger_conditions =
        [j \in DOMAIN note_data.trigger_conditions |->
            LET tc_data == note_data.trigger_conditions[j]
            IN  TriggerCondition(tc_data.type, tc_data.node_types,
                                 tc_data.node_type, tc_data.attribute_name,
                                 tc_data.attribute_values,
                                 tc_data.workflow_names)]])

RECURSIVE LoadNotesLoop(_, _, _)
LoadNotesLoop(data, i, acc) ==
    IF i > Len(data) THEN acc
    ELSE LET note == NoteFromJson(data[i])
         IN  LoadNotesLoop(data, i + 1, Put(acc, note.uuid, note))

(* _load_notes: a missing file and a file that does not parse give {}. *)
LoadNotes(file) ==
    IF file.state = "ok" THEN LoadNotesLoop(file.data, 1, <<>>) ELSE <<>>

RECURSIVE LoadFoldersLoop(_, _, _)
LoadFoldersLoop(data, i, acc) ==
    IF i > Len(data) THEN acc
    ELSE LET folder == Folder(data[i].uuid, data[i].parent_uuid, data[i].name)
         IN  LoadFoldersLoop(data, i + 1, Put(acc, folder.uuid, folder))

(* _load_folders *)
LoadFolders(file) ==
    IF file.state = "ok" THEN LoadFoldersLoop(file.data, 1, <<>>) ELSE <<>>

(* The array _save_notes builds: asdict of every value, in dict order. *)
NotesToJson(d) == [i \in DOMAIN d |-> d[i].val]

(* The array _save_folders builds. *)
FoldersToJson(d) == [i \in DOMAIN d |-> d[i].val]

WriteOutcomes == {"ok", "fail", "corrupt"}

WriteFileMerging(file, data, outcome) ==
    IF outcome = "ok" THEN JsonFile(file.data \o data)
    ELSE IF outcome = "corrupt" THEN CorruptFile
    ELSE file

(* open(path, 'w') and json.dump inside try/except: the whole array        *)
(* replaces the file ("ok"); open raises and the file stays as it was      *)
(* ("fail"); or open truncates and the dump raises part-way ("corrupt").   *)
(* The except clause prints and returns in both failing cases.             *)
WriteFile(file, data, outcome) ==
    IF outcome = "ok" THEN JsonFile(data)
    ELSE IF outcome = "corrupt" THEN CorruptFile
    ELSE file

NoteAttrs ==
    {"uuid", "folder_uuid", "content", "format_style", "trigger_conditions",
     "pinned", "name", "tags"}

(* The loop of update_note over kwargs, from entry i on: setattr for the   *)
(* names hasattr accepts (here the dataclass fields), nothing for others.  *)
RECURSIVE SetAttrs(_, _, _)
SetAttrs(note, kwargs, i) ==
    IF i > Len(kwargs) THEN note
    ELSE SetAttrs(IF kwargs[i].key \in NoteAttrs
                  THEN [note EXCEPT ![kwargs[i].key] = kwargs[i].val]
                  ELSE note,
                  kwargs, i + 1)

(* The for loop of delete_folder over manager.notes.values(). *)
ClearFolder(d, folder_uuid) ==
    [i \in DOMAIN d |->
        IF d[i].val.folder_uuid = Some(folder_uuid)
        THEN [d[i] EXCEPT !.val.folder_uuid = None]
        ELSE d[i]]

---------------------------------------------------------------------------
(* The HTTP handlers.  Each request builds a manager (get_manager_for_     *)
(* request), which loads both files, and drops it when it has answered.    *)
(* The handlers run on one event loop: a handler gives way to the others   *)
(* only at `await request.json()`, so the POST and PUT handlers take two   *)
(* steps (load; then mutate and save) and the GET and DELETE handlers one. *)
(* delete_folder is split at the point between its two saves, where the    *)
(* files can be observed, and no other handler runs while it stands there. *)

Handlers == 1..NumHandlers

FolderIds == <<"f1", "f2", "f3", "f4", "f5", "f6">>

(* The ids uuid4 has returned so far. *)
DrawnNotes == {NoteIds[i] : i \in 1..nextNote}

DrawnFolders == {FolderIds[i] : i \in 1..nextFolder}

(* The ids a request path may name: those, and one uuid4 never returns. *)
NotePool == DrawnNotes \cup {"nx"}

FolderPool == DrawnFolders \cup {"fx"}

Entry(k, v) == [key |-> k, val |-> v]

(* The JSON bodies of the requests. *)
CreateNoteBodies ==
    {<<Entry("name", "a")>>}
    \cup {<<Entry("name", "a"), Entry("folder_uuid", Some(f))>> :
              f \in DrawnFolders}

UpdateNoteBodies ==
    {<<Entry("color", "red"), Entry("name", "b")>>,
     <<Entry("trigger_conditions",
             <<TriggerCondition("node_selected", Some(<<"A">>), None, None,
                                None, None)>>)>>,
     <<Entry("note_uuid", "x")>>}
    \cup {<<Entry("uuid", u)>> : u \in DrawnNotes}

(* The names of update_note's own parameters: a body key equal to one of   *)
(* them cannot be passed on as a keyword argument.                         *)
Parameters == {"self", "note_uuid"}

Collides(data) == \E j \in DOMAIN data : data[j].key \in Parameters

CreateFolderBodies == {<<Entry("name", "a")>>}

UpdateFolderBodies ==
    {<<Entry("name", "b")>>}
    \cup {<<Entry("parent_uuid", Some(f))>> : f \in DrawnFolders}

ListModes == {"all", "automatic"}

ListContexts == {Context(Some("A"), None, None, None)}

Awaiting == {"create_note", "update_note", "create_folder", "update_folder"}

Call(op, id, data) == [op |-> op, id |-> id, data |-> data]

(* web.json_response({"uuid": ...}) *)
UuidResponse(u) ==
    [status |-> 200, success |-> None, uuid |-> Some(u), body |-> <<>>]

(* web.json_response({"success": ...}) *)
SuccessResponse(b) ==
    [status |-> 200, success |-> Some(b), uuid |-> None, body |-> <<>>]

(* web.json_response([...]) *)
ListResponse(body) ==
    [status |-> 200, success |-> None, uuid |-> None, body |-> body]

(* web.json_response({"success": False, "error": ...}, status=404) *)
NotFoundResponse ==
    [status |-> 404, success |-> Some(FALSE), uuid |-> None, body |-> <<>>]

(* web.json_response({"error": str(e)}, status=500) *)
ErrorResponse ==
    [status |-> 500, success |-> None, uuid |-> None, body |-> <<>>]

Served(c, r, w, ns, fs) ==
    [call |-> c, response |-> r, writes |-> w, notes |-> ns, folders |-> fs]

NothingServed ==
    Served(Call("none", None, <<>>),
           [status |-> 0, success |-> None, uuid |-> None, body |-> <<>>],
           <<>>, <<>>, <<>>)

(* No handler stands inside delete_folder. *)
LoopFree == \A g \in Handlers : pc[g] # "delete_folder"

Write(file, outcome) == [file |-> file, outcome |-> outcome]

(* _save_notes of a manager whose notes are d. *)
SaveNotes(d, outcome) ==
    /\ outcome = "ok" \/ faults < MaxFaults
    /\ notesFile' = WriteFile(notesFile, NotesToJson(d), outcome)
    /\ faults' = IF outcome = "ok" THEN faults ELSE faults + 1
    /\ UNCHANGED foldersFile

(* _save_folders of a manager whose folders are d. *)
SaveFolders(d, outcome) ==
    /\ outcome = "ok" \/ faults < MaxFaults
    /\ foldersFile' = WriteFile(foldersFile, FoldersToJson(d), outcome)
    /\ faults' = IF outcome = "ok" THEN faults ELSE faults + 1
    /\ UNCHANGED notesFile

NoSave == UNCHANGED <<notesFile, foldersFile, faults>>

(* Handler h answers r to the request c and drops its manager, which held  *)
(* notes ns and folders fs and made the writes w.                          *)
Reply(h, c, r, w, ns, fs) ==
    /\ pc' = [pc EXCEPT ![h] = "idle"]
    /\ notes' = [notes EXCEPT ![h] = <<>>]
    /\ folders' = [folders EXCEPT ![h] = <<>>]
    /\ writes' = [writes EXCEPT ![h] = <<>>]
    /\ path' = [path EXCEPT ![h] = None]
    /\ last' = Served(c, r, w, ns, fs)

(* A request arrives; the first idle handler takes it. *)
Arrives(h) ==
    /\ LoopFree
    /\ pc[h] = "idle"
    /\ \A g \in Handlers : g < h => pc[g] # "idle"
    /\ requests < MaxRequests
    /\ requests' = requests + 1

(* What AutoNotesManager.__init__ loads. *)
Manager == [notes |-> LoadNotes(notesFile), folders |-> LoadFolders(foldersFile)]

(* The handlers that await the body: the manager is built, then the        *)
(* handler waits at `await request.json()`.                                *)
BeginRequest(h, kind) ==
    /\ Arrives(h)
    /\ pc' = [pc EXCEPT ![h] = kind]
    /\ notes' = [notes EXCEPT ![h] = Manager.notes]
    /\ folders' = [folders EXCEPT ![h] = Manager.folders]
    /\ NoSave
    /\ UNCHANGED <<path, writes, last, nextNote, nextFolder>>
    /\ UNCHANGED <<evalVars, selectVars>>

(* request.json() raises on a body that is not JSON: the handler's except  *)
(* clause answers 500 and nothing is saved.                                *)
RejectBody(h) ==
    /\ LoopFree
    /\ pc[h] \in Awaiting
    /\ Reply(h, Call(pc[h], None, <<>>), ErrorResponse, <<>>, notes[h],
             folders[h])
    /\ NoSave
    /\ UNCHANGED <<nextNote, nextFolder, requests>>
    /\ UNCHANGED <<evalVars, selectVars>>

(* POST /autonotes/notes after the await: manager.create_note. *)
CreateNote(h, data, outcome) ==
    /\ LoopFree
    /\ pc[h] = "create_note"
    /\ LET name == Get(data, "name", "New Note")
           folder_uuid == Get(data, "folder_uuid", None)
           note_uuid == NoteIds[nextNote + 1]
           note == Note(note_uuid, folder_uuid, "", "plaintext", <<>>, FALSE,
                        name, Some(<<>>))
           d == Put(notes[h], note_uuid, note)
       IN  /\ SaveNotes(d, outcome)
           /\ Reply(h, Call("create_note", None, data), UuidResponse(note_uuid),
                    <<Write("notes", outcome)>>, d, folders[h])
    /\ nextNote' = nextNote + 1
    /\ UNCHANGED <<nextFolder, requests>>
    /\ UNCHANGED <<evalVars, selectVars>>

(* PUT /autonotes/notes/{note_uuid} after the await, for a uuid the        *)
(* manager holds: manager.update_note applies the body and saves.          *)
UpdateNote(h, note_uuid, data, outcome) ==
    /\ LoopFree
    /\ pc[h] = "update_note"
    /\ ~Collides(data)
    /\ note_uuid \in Keys(notes[h])
    /\ LET note == SetAttrs(Lookup(notes[h], Some(note_uuid)), data, 1)
           d == Put(notes[h], note_uuid, note)
       IN  /\ SaveNotes(d, outcome)
           /\ Reply(h, Call("update_note", Some(note_uuid), data),
                    SuccessResponse(TRUE), <<Write("notes", outcome)>>, d,
                    folders[h])
    /\ UNCHANGED <<nextNote, nextFolder, requests>>
    /\ UNCHANGED <<evalVars, selectVars>>

(* The same for a uuid the manager does not hold: update_note returns      *)
(* False before anything is changed or saved.                              *)
UpdateUnknownNote(h, note_uuid, data) ==
    /\ LoopFree
    /\ pc[h] = "update_note"
    /\ ~Collides(data)
    /\ note_uuid \notin Keys(notes[h])
    /\ Reply(h, Call("update_note", Some(note_uuid), data),
             SuccessResponse(FALSE), <<>>, notes[h], folders[h])
    /\ NoSave
    /\ UNCHANGED <<nextNote, nextFolder, requests>>
    /\ UNCHANGED <<evalVars, selectVars>>

(* The same with a body key that is the name of a parameter of             *)
(* update_note: the call manager.update_note(note_uuid, **data) raises     *)
(* TypeError before the method runs, and the handler's except clause       *)
(* answers 500; nothing is changed or saved.                               *)
UpdateNoteTypeError(h, note_uuid, data) ==
    /\ LoopFree
    /\ pc[h] = "update_note"
    /\ Collides(data)
    /\ Reply(h, Call("update_note", Some(note_uuid), data), ErrorResponse,
             <<>>, notes[h], folders[h])
    /\ NoSave
    /\ UNCHANGED <<nextNote, nextFolder, requests>>
    /\ UNCHANGED <<evalVars, selectVars>>

(* DELETE /autonotes/notes/{note_uuid} for a uuid the manager holds:       *)
(* load, manager.delete_note and its save are one step.                    *)
DeleteNote(h, note_uuid, outcome) ==
    /\ Arrives(h)
    /\ note_uuid \in Keys(Manager.notes)
    /\ LET d == Del(Manager.notes, note_uuid)
       IN  /\ SaveNotes(d, outcome)
           /\ Reply(h, Call("delete_note", Some(note_uuid), <<>>),
                    SuccessResponse(TRUE), <<Write("notes", outcome)>>, d,
                    Manager.folders)
    /\ UNCHANGED <<nextNote, nextFolder>>
    /\ UNCHANGED <<evalVars, selectVars>>

(* The same for a uuid the manager does not hold: nothing is saved. *)
DeleteUnknownNote(h, note_uuid) ==
    /\ Arrives(h)
    /\ note_uuid \notin Keys(Manager.notes)
    /\ NoSave
    /\ Reply(h, Call("delete_note", Some(note_uuid), <<>>),
             SuccessResponse(FALSE), <<>>, Manager.notes, Manager.folders)
    /\ UNCHANGED <<nextNote, nextFolder>>
    /\ UNCHANGED <<evalVars, selectVars>>

(* GET /autonotes/notes: load, get_notes_for_display, asdict of each note. *)
ListNotes(h, m, x) ==
    /\ Arrives(h)
    /\ NoSave
    /\ Reply(h, Call("get_notes", None, <<Entry("mode", m)>>),
             ListResponse(GetNotesForDisplay(
                 Manager.notes, m, x.selected_node_type,
                 x.selected_node_attributes, x.workflow_name,
                 x.workflow_nodes)),
             <<>>, Manager.notes, Manager.folders)
    /\ UNCHANGED <<nextNote, nextFolder>>
    /\ UNCHANGED <<evalVars, selectVars>>

(* GET /autonotes/folders *)
ListFolders(h) ==
    /\ Arrives(h)
    /\ NoSave
    /\ Reply(h, Call("get_folders", None, <<>>),
             ListResponse(FoldersToJson(Manager.folders)),
             <<>>, Manager.notes, Manager.folders)
    /\ UNCHANGED <<nextNote, nextFolder>>
    /\ UNCHANGED <<evalVars, selectVars>>

(* POST /autonotes/folders after the await: manager.create_folder. *)
CreateFolder(h, data, outcome) ==
    /\ LoopFree
    /\ pc[h] = "create_folder"
    /\ LET name == Get(data, "name", "New Folder")
           parent_uuid == Get(data, "parent_uuid", None)
           folder_uuid == FolderIds[nextFolder + 1]
           d == Put(folders[h], folder_uuid,
                    Folder(folder_uuid, parent_uuid, name))
       IN  /\ SaveFolders(d, outcome)
           /\ Reply(h, Call("create_folder", None, data),
                    UuidResponse(folder_uuid), <<Write("folders", outcome)>>,
                    notes[h], d)
    /\ nextFolder' = nextFolder + 1
    /\ UNCHANGED <<nextNote, requests>>
    /\ UNCHANGED <<evalVars, selectVars>>

(* PUT /autonotes/folders/{folder_uuid} after the await, for a uuid the    *)
(* manager holds: name and parent_uuid are set when the body names them.   *)
UpdateFolder(h, folder_uuid, data, outcome) ==
    /\ LoopFree
    /\ pc[h] = "update_folder"
    /\ folder_uuid \in Keys(folders[h])
    /\ LET folder == Lookup(folders[h], Some(folder_uuid))
           named == IF HasKey(data, Some("name"))
                    THEN [folder EXCEPT !.name = Lookup(data, Some("name"))]
                    ELSE folder
           moved == IF HasKey(data, Some("parent_uuid"))
                    THEN [named EXCEPT
                             !.parent_uuid = Lookup(data, Some("parent_uuid"))]
                    ELSE named
           d == Put(folders[h], folder_uuid, moved)
       IN  /\ SaveFolders(d, outcome)
           /\ Reply(h, Call("update_folder", Some(folder_uuid), data),
                    SuccessResponse(TRUE), <<Write("folders", outcome)>>,
                    notes[h], d)
    /\ UNCHANGED <<nextNote, nextFolder, requests>>
    /\ UNCHANGED <<evalVars, selectVars>>

(* The same for a uuid the manager does not hold: 404, nothing is saved. *)
UpdateUnknownFolder(h, folder_uuid, data) ==
    /\ LoopFree
    /\ pc[h] = "update_folder"
    /\ folder_uuid \notin Keys(folders[h])
    /\ Reply(h, Call("update_folder", Some(folder_uuid), data),
             NotFoundResponse, <<>>, notes[h], folders[h])
    /\ NoSave
    /\ UNCHANGED <<nextNote, nextFolder, requests>>
    /\ UNCHANGED <<evalVars, selectVars>>

(* DELETE /autonotes/folders/{folder_uuid} for a uuid the manager holds,   *)
(* up to and with manager._save_notes(): load, clear the references.       *)
DeleteFolderSaveNotes(h, folder_uuid, outcome) ==
    /\ Arrives(h)
    /\ folder_uuid \in Keys(Manager.folders)
    /\ LET d == ClearFolder(Manager.notes, folder_uuid)
       IN  /\ notes' = [notes EXCEPT ![h] = d]
           /\ SaveNotes(d, outcome)
    /\ folders' = [folders EXCEPT ![h] = Manager.folders]
    /\ pc' = [pc EXCEPT ![h] = "delete_folder"]
    /\ path' = [path EXCEPT ![h] = Some(folder_uuid)]
    /\ writes' = [writes EXCEPT ![h] = <<Write("notes", outcome)>>]
    /\ UNCHANGED <<last, nextNote, nextFolder>>
    /\ UNCHANGED <<evalVars, selectVars>>

(* The rest of it: del manager.folders[folder_uuid], _save_folders(). *)
DeleteFolderSaveFolders(h, outcome) ==
    /\ pc[h] = "delete_folder"
    /\ LET d == Del(folders[h], The(path[h]))
       IN  /\ SaveFolders(d, outcome)
           /\ Reply(h, Call("delete_folder", path[h], <<>>),
                    SuccessResponse(TRUE),
                    Append(writes[h], Write("folders", outcome)), notes[h], d)
    /\ UNCHANGED <<nextNote, nextFolder, requests>>
    /\ UNCHANGED <<evalVars, selectVars>>

(* The same for a uuid the manager does not hold: 404, nothing is saved. *)
DeleteUnknownFolder(h, folder_uuid) ==
    /\ Arrives(h)
    /\ folder_uuid \notin Keys(Manager.folders)
    /\ NoSave
    /\ Reply(h, Call("delete_folder", Some(folder_uuid), <<>>),
             NotFoundResponse, <<>>, Manager.notes, Manager.folders)
    /\ UNCHANGED <<nextNote, nextFolder>>
    /\ UNCHANGED <<evalVars, selectVars>>

(* What the files hold when the first request of a behaviour arrives:      *)
(* nothing (no file yet), or what create_folder, create_note in that       *)
(* folder, update_note of its trigger_conditions and create_note leave.    *)
SeedFolders == <<Folder("f1", None, "a")>>

SeedNotes ==
    <<Note("n1", Some("f1"), "", "plaintext",
           <<TriggerCondition("node_selected", Some(<<"A">>), None, None,
                              None, None)>>,
           FALSE, "a", Some(<<>>)),
      Note("n2", None, "", "plaintext", <<>>, FALSE, "a", Some(<<>>))>>

(* Every handler idle and nothing served, over a fresh user directory. *)
InitFresh ==
    /\ notesFile = MissingFile
    /\ foldersFile = MissingFile
    /\ nextNote = 0
    /\ nextFolder = 0
    /\ pc = [h \in Handlers |-> "idle"]
    /\ notes = [h \in Handlers |-> <<>>]
    /\ folders = [h \in Handlers |-> <<>>]
    /\ path = [h \in Handlers |-> None]
    /\ writes = [h \in Handlers |-> <<>>]
    /\ last = NothingServed
    /\ requests = 0
    /\ faults = 0

InitStore ==
    /\ \/ /\ notesFile = MissingFile
          /\ foldersFile = MissingFile
          /\ nextNote = 0
          /\ nextFolder = 0
       \/ /\ notesFile = JsonFile(SeedNotes)
          /\ foldersFile = JsonFile(SeedFolders)
          /\ nextNote = 2
          /\ nextFolder = 1
    /\ pc = [h \in Handlers |-> "idle"]
    /\ notes = [h \in Handlers |-> <<>>]
    /\ folders = [h \in Handlers |-> <<>>]
    /\ path = [h \in Handlers |-> None]
    /\ writes = [h \in Handlers |-> <<>>]
    /\ last = NothingServed
    /\ requests = 0
    /\ faults = 0

Init ==
    /\ InitStore
    /\ cond = None
    /\ ctx = None
    /\ result = None
    /\ store = <<>>
    /\ mode = "all"
    /\ shown = None

Next ==
    \E h \in Handlers :
        \/ \E kind \in Awaiting : BeginRequest(h, kind)
        \/ RejectBody(h)
        \/ \E data \in CreateNoteBodies, outcome \in WriteOutcomes :
               CreateNote(h, data, outcome)
        \/ \E note_uuid \in NotePool, data \in UpdateNoteBodies :
               \/ \E outcome \in WriteOutcomes :
                      UpdateNote(h, note_uuid, data, outcome)
               \/ UpdateUnknownNote(h, note_uuid, data)
               \/ UpdateNoteTypeError(h, note_uuid, data)
        \/ \E note_uuid \in NotePool :
               \/ \E outcome \in WriteOutcomes :
                      DeleteNote(h, note_uuid, outcome)
               \/ DeleteUnknownNote(h, note_uuid)
        \/ \E m \in ListModes, x \in ListContexts : ListNotes(h, m, x)
        \/ ListFolders(h)
        \/ \E data \in CreateFolderBodies, outcome \in WriteOutcomes :
               CreateFolder(h, data, outcome)
        \/ \E folder_uuid \in FolderPool, data \in UpdateFolderBodies :
               \/ \E outcome \in WriteOutcomes :
                      UpdateFolder(h, folder_uuid, data, outcome)
               \/ UpdateUnknownFolder(h, folder_uuid, data)
        \/ \E folder_uuid \in FolderPool :
               \/ \E outcome \in WriteOutcomes :
                      DeleteFolderSaveNotes(h, folder_uuid, outcome)
               \/ DeleteUnknownFolder(h, folder_uuid)
        \/ \E outcome \in WriteOutcomes : DeleteFolderSaveFolders(h, outcome)

Spec == Init /\ [][Next]_vars

---------------------------------------------------------------------------
(* SpecEval: one evaluation of a condition against a context *)

InitEval ==
    /\ cond \in Conditions
    /\ ctx \in Contexts
    /\ result = None
    /\ store = <<>>
    /\ mode = "all"
    /\ shown = None
    /\ InitFresh

EvaluateCondition ==
    /\ result = None
    /\ result' = Some(Evaluate(cond, ctx))
    /\ UNCHANGED <<cond, ctx, selectVars, storeVars>>

NextEval == EvaluateCondition

SpecEval == InitEval /\ [][NextEval]_vars

---------------------------------------------------------------------------
(* SpecSelect: one call of get_notes_for_display *)

InitSelect ==
    /\ \E k \in 0..MaxShownNotes :
         \E cs \in [1..k -> SeqsUpTo(CondPool, MaxConds)],
            ps \in [1..k -> BOOLEAN] :
             store = SelectStore(k, cs, ps)
    /\ mode \in Modes
    /\ ctx \in SelectContexts
    /\ shown = None
    /\ cond = None
    /\ result = None
    /\ InitFresh

DisplayNotes ==
    /\ shown = None
    /\ shown' = Some(GetNotesForDisplay(store, mode, ctx.selected_node_type,
                                        ctx.selected_node_attributes,
                                        ctx.workflow_name, ctx.workflow_nodes))
    /\ UNCHANGED <<store, mode, cond, ctx, result, storeVars>>

NextSelect == DisplayNotes

SpecSelect == InitSelect /\ [][NextSelect]_vars

---------------------------------------------------------------------------
(* SpecRoundTrip: one manager saves its two dicts, a new manager loads *)

RoundTripConditions ==
    {<<>>,
     <<TriggerCondition("workflow_name", None, None, None, None,
                        Some(<<<<"5">>, <<"1", "2">>>>))>>,
     <<TriggerCondition("node_selected", Some(<<"A", "B">>), None, None, None,
                        None),
       TriggerCondition("node_in_workflow_attribute", None, Some("A"),
                        Some("res"), Some(<<>>), None)>>}

(* A dict of k notes, each keyed by its note's uuid. *)
RoundTripStore(k, fs, cs, ps, ts) ==
    [i \in 1..k |->
        Entry(NoteIds[i],
              Note(NoteIds[i], fs[i], "", "plaintext", cs[i], ps[i], "a",
                   Some(ts[i])))]

RoundTripFolders ==
    {<<>>,
     <<Entry("f1", Folder("f1", None, "a"))>>,
     <<Entry("f1", Folder("f1", None, "a")),
       Entry("f2", Folder("f2", Some("f1"), "b"))>>}

InitRoundTrip ==
    /\ \E k \in 0..MaxShownNotes :
         \E fs \in [1..k -> Opt({"f1"})],
            cs \in [1..k -> RoundTripConditions],
            ps \in [1..k -> BOOLEAN],
            ts \in [1..k -> {<<>>, <<"t">>}] :
             notes = [h \in Handlers |->
                         IF h = 1 THEN RoundTripStore(k, fs, cs, ps, ts)
                         ELSE <<>>]
    /\ folders \in {[h \in Handlers |-> IF h = 1 THEN d ELSE <<>>] :
                       d \in RoundTripFolders}
    /\ pc = [h \in Handlers |-> IF h = 1 THEN "save_notes" ELSE "idle"]
    /\ notesFile = MissingFile
    /\ foldersFile = MissingFile
    /\ path = [h \in Handlers |-> None]
    /\ writes = [h \in Handlers |-> <<>>]
    /\ last = NothingServed
    /\ nextNote = 0
    /\ nextFolder = 0
    /\ requests = 0
    /\ faults = 0
    /\ cond = None
    /\ ctx = None
    /\ result = None
    /\ store = <<>>
    /\ mode = "all"
    /\ shown = None

(* manager._save_notes(), the write going through. *)
RoundTripSaveNotes ==
    /\ pc[1] = "save_notes"
    /\ SaveNotes(notes[1], "ok")
    /\ pc' = [pc EXCEPT ![1] = "save_folders"]
    /\ UNCHANGED <<notes, folders, path, writes, last, nextNote, nextFolder,
                   requests>>
    /\ UNCHANGED <<evalVars, selectVars>>

(* manager._save_folders(), the write going through. *)
RoundTripSaveFolders ==
    /\ pc[1] = "save_folders"
    /\ SaveFolders(folders[1], "ok")
    /\ pc' = [pc EXCEPT ![1] = "saved"]
    /\ UNCHANGED <<notes, folders, path, writes, last, nextNote, nextFolder,
                   requests>>
    /\ UNCHANGED <<evalVars, selectVars>>

(* AutoNotesManager(user) for the same user. *)
RoundTripLoad ==
    /\ pc[1] = "saved"
    /\ pc[2] = "idle"
    /\ pc' = [pc EXCEPT ![2] = "loaded"]
    /\ notes' = [notes EXCEPT ![2] = Manager.notes]
    /\ folders' = [folders EXCEPT ![2] = Manager.folders]
    /\ NoSave
    /\ UNCHANGED <<path, writes, last, nextNote, nextFolder, requests>>
    /\ UNCHANGED <<evalVars, selectVars>>

NextRoundTrip == RoundTripSaveNotes \/ RoundTripSaveFolders \/ RoundTripLoad

SpecRoundTrip == InitRoundTrip /\ [][NextRoundTrip]_vars

---------------------------------------------------------------------------
(* Claims about the matcher (SpecEval) and the selection (SpecSelect) *)

Evaluated == result # None

(* A field the condition's kind requires is None on the condition, or the  *)
(* context field that kind reads is None.                                  *)
RequiredFieldAbsent(c, x) ==
    \/ /\ c.type = "node_selected"
       /\ (c.node_types = None \/ x.selected_node_type = None)
    \/ /\ c.type = "node_selected_attribute"
       /\ \/ c.node_type = None
          \/ c.attribute_name = None
          \/ c.attribute_values = None
          \/ x.selected_node_type = None
          \/ x.selected_node_attributes = None
    \/ /\ c.type = "node_in_workflow"
       /\ (c.node_types = None \/ x.workflow_nodes = None)
    \/ /\ c.type = "node_in_workflow_attribute"
       /\ \/ c.node_type = None
          \/ c.attribute_name = None
          \/ x.workflow_nodes = None
    \/ /\ c.type = "workflow_name"
       /\ (c.workflow_names = None \/ x.workflow_name = None)

(* C4: a condition with a required field absent, or evaluated against a    *)
(* context whose corresponding field is absent, evaluates to false.        *)
C4_AbsentFieldYieldsFalse ==
    (Evaluated /\ RequiredFieldAbsent(cond, ctx)) => The(result) = FALSE

(* The attribute of the condition's node type in the workflow node map,    *)
(* as a set: empty when the map, the node type or the attribute is absent. *)
WorkflowAttribute(c, x) ==
    IF x.workflow_nodes = None THEN {}
    ELSE LET nodes == {m \in Range(The(x.workflow_nodes)) :
                          m.key = The(c.node_type)}
             attrs == UNION {Range(m.val) : m \in nodes}
         IN  {a.val : a \in {b \in attrs : b.key = The(c.attribute_name)}}

(* C8: a node_in_workflow_attribute condition with node_type and           *)
(* attribute_name set matches, when attribute_values is None or empty, iff *)
(* the node type is in the workflow node map and carries the attribute;    *)
(* when attribute_values is non-empty, iff moreover the attribute's value  *)
(* as a string contains one of the listed values.                          *)
C8_WorkflowAttributePresence ==
    (/\ Evaluated
     /\ cond.type = "node_in_workflow_attribute"
     /\ cond.node_type # None
     /\ cond.attribute_name # None)
    => The(result) =
         IF cond.attribute_values = None \/ cond.attribute_values = Some(<<>>)
         THEN WorkflowAttribute(cond, ctx) # {}
         ELSE \E v \in WorkflowAttribute(cond, ctx) :
                 \E needle \in Range(The(cond.attribute_values)) :
                     Contains(Str(v), needle)

C8_Witness ==
    /\ result = Some(TRUE)
    /\ cond.type = "node_in_workflow_attribute"
    /\ cond.attribute_values = Some(<<>>)
    /\ WorkflowAttribute(cond, ctx) = {IntVal(12)}

ShouldDisplay(note, x) ==
    \/ note.pinned
    \/ \E c \in Range(note.trigger_conditions) : Evaluate(c, x)

(* C1: in any mode other than "all" the notes returned are exactly the     *)
(* pinned notes and the notes with a condition that holds, each once, in   *)
(* storage order.                                                          *)
C1_AutomaticSelection ==
    (shown # None /\ mode # "all")
    => LET Keep(note) == ShouldDisplay(note, ctx)
       IN  The(shown) = SelectSeq(Values(store), Keep)

C1_Witness ==
    /\ shown # None
    /\ mode = "auto"
    /\ Len(store) = 2
    /\ store[1].val.pinned
    /\ Len(store[1].val.trigger_conditions) = 2
    /\ \A c \in Range(store[1].val.trigger_conditions) : Evaluate(c, ctx)
    /\ ~store[2].val.pinned
    /\ store[2].val.trigger_conditions = <<>>
    /\ The(shown) = <<store[1].val>>
---------------------------------------------------------------------------
(* Claims about the store (Spec, SpecRoundTrip) *)

ReportsSuccess(r) ==
    r.status = 200 /\ (r.uuid # None \/ r.success = Some(TRUE))

(* C3: a request one of whose file writes failed is not answered with a    *)
(* uuid or with success true.                                              *)
C3_WriteFailureSurfaced ==
    ReportsSuccess(last.response)
    => \A i \in DOMAIN last.writes : last.writes[i].outcome = "ok"

(* The managers there are: those of the requests in flight and that of the *)
(* request served last.                                                    *)
ManagerNotes == {notes[h] : h \in Handlers} \cup {last.notes}

DistinctUuids(records) ==
    \A i, j \in DOMAIN records :
        i # j => records[i].uuid # records[j].uuid

(* C5: in every manager and in notes.json no two notes carry the same uuid *)
(* and every note is stored under its uuid, so that loading notes.json     *)
(* yields the notes it holds.                                              *)
C5_UniqueIdentity ==
    /\ \A d \in ManagerNotes :
           /\ \A i \in DOMAIN d : d[i].key = d[i].val.uuid
           /\ DistinctUuids(Values(d))
    /\ DistinctUuids(notesFile.data)
    /\ Len(LoadNotes(notesFile)) = Len(notesFile.data)

(* Handler h finishes update_note for a uuid its manager holds, with a     *)
(* body that names something that is no Note attribute.                    *)
UpdatesWithUnknownField(h) ==
    /\ pc[h] = "update_note"
    /\ pc'[h] = "idle"
    /\ last'.call.op = "update_note"
    /\ last'.call.id # None
    /\ The(last'.call.id) \in Keys(notes[h])
    /\ \E j \in DOMAIN last'.call.data : last'.call.data[j].key \notin NoteAttrs

(* The value the body gives attribute f last, as a set: empty when the     *)
(* body does not name f.                                                   *)
Given(data, f) ==
    LET at == {j \in DOMAIN data : data[j].key = f}
    IN  IF at = {} THEN {}
        ELSE {data[CHOOSE j \in at : \A k \in at : k <= j].val}

(* C6: such an update answers success true; the note keeps every attribute *)
(* the body does not name, gets the value of each attribute it does name   *)
(* and gets no new field; every other note and every folder is as it was.  *)
C6_UnknownFieldIgnored ==
    [][\A h \in Handlers :
         UpdatesWithUnknownField(h) =>
           LET id   == The(last'.call.id)
               data == last'.call.data
               old  == notes[h]
               new  == last'.notes
           IN  /\ last'.response = SuccessResponse(TRUE)
               /\ Len(new) = Len(old)
               /\ \A i \in DOMAIN old :
                    /\ new[i].key = old[i].key
                    /\ old[i].key # id => new[i] = old[i]
                    /\ old[i].key = id =>
                         /\ DOMAIN new[i].val = NoteAttrs
                         /\ \A f \in NoteAttrs :
                              IF Given(data, f) = {}
                              THEN new[i].val[f] = old[i].val[f]
                              ELSE {new[i].val[f]} = Given(data, f)
               /\ last'.folders = folders[h]
               /\ foldersFile' = foldersFile]_vars

(* The notes dict of the manager that wrote notes.json in this step, and   *)
(* the folders dict of the one that wrote folders.json.                    *)
NotesWritten ==
    IF \E h \in Handlers : pc[h] = "idle" /\ pc'[h] = "delete_folder"
    THEN notes'[CHOOSE h \in Handlers :
                    pc[h] = "idle" /\ pc'[h] = "delete_folder"]
    ELSE last'.notes

FoldersWritten == last'.folders

FileUuids(file) == {file.data[i].uuid : i \in DOMAIN file.data}

(* What handler h loaded, with nothing but its own request applied: the    *)
(* written records number those loaded (one more after a create) and each  *)
(* loaded record the request does not name is written as it was loaded.    *)
OwnChangeOnly(written, loaded, create) ==
    /\ Len(written) = Len(loaded) + (IF create THEN 1 ELSE 0)
    /\ \A i \in DOMAIN loaded :
         last'.call.id # Some(loaded[i].key) => written[i] = loaded[i].val

(* C9: a write is a whole snapshot and never a merge.  When notes.json     *)
(* changes it holds (unless the write broke off) exactly the notes of the  *)
(* manager that wrote it, which are what that manager loaded plus its own  *)
(* change, so what another manager persisted in between is gone; likewise  *)
(* folders.json.                                                           *)
C9_LastWriteWins ==
    [][/\ (notesFile' # notesFile /\ notesFile'.state = "ok") =>
            /\ Len(notesFile'.data) = Len(NotesWritten)
            /\ \A i \in DOMAIN NotesWritten :
                   notesFile'.data[i] = NotesWritten[i].val
            /\ \A h \in Handlers :
                 (pc[h] \in {"create_note", "update_note"} /\ pc'[h] = "idle")
                 => OwnChangeOnly(notesFile'.data, notes[h],
                                  pc[h] = "create_note")
       /\ (foldersFile' # foldersFile /\ foldersFile'.state = "ok") =>
            /\ Len(foldersFile'.data) = Len(FoldersWritten)
            /\ \A i \in DOMAIN FoldersWritten :
                   foldersFile'.data[i] = FoldersWritten[i].val
            /\ \A h \in Handlers :
                 (pc[h] \in {"create_folder", "update_folder"}
                  /\ pc'[h] = "idle")
                 => OwnChangeOnly(foldersFile'.data, folders[h],
                                  pc[h] = "create_folder")]_vars

(* Two create_note requests, both answered and both written without a     *)
(* fault, and the note of the one that wrote first is not in notes.json.   *)
C9_Witness ==
    /\ requests = 2
    /\ faults = 0
    /\ \A h \in Handlers : pc[h] = "idle"
    /\ last.call.op = "create_note"
    /\ nextNote \in {2, 4}
    /\ NoteIds[nextNote] \in FileUuids(notesFile)
    /\ NoteIds[nextNote - 1] \notin FileUuids(notesFile)

(* No note of notes.json refers to folder f. *)
NoReference(file, f) ==
    \A i \in DOMAIN file.data : file.data[i].folder_uuid # Some(f)

StartsDeleteFolder(h) == pc[h] = "idle" /\ pc'[h] = "delete_folder"

EndsDeleteFolder(h) == pc[h] = "delete_folder" /\ pc'[h] = "idle"

(* C2: when delete_folder of an existing folder F is done, the notes that  *)
(* were in F have folder_uuid None and the other notes are as they were,   *)
(* in the files a new manager loads, and F is not among its folders.       *)
C2_DeleteFolderClearsReferences ==
    [][\A h \in Handlers :
         /\ StartsDeleteFolder(h) =>
              LET f      == The(path'[h])
                  before == LoadNotes(notesFile)
                  after  == LoadNotes(notesFile')
              IN  /\ Len(after) = Len(before)
                  /\ \A i \in DOMAIN before :
                       after[i] =
                         IF before[i].val.folder_uuid = Some(f)
                         THEN [before[i] EXCEPT !.val.folder_uuid = None]
                         ELSE before[i]
         /\ EndsDeleteFolder(h) =>
              /\ NoReference(notesFile', The(path[h]))
              /\ The(path[h]) \notin Keys(LoadFolders(foldersFile'))]_vars

(* Folder f is missing from folders.json while a note of notes.json still  *)
(* refers to it.                                                           *)
Dangling(nf, ff, f) == f \notin FileUuids(ff) /\ ~NoReference(nf, f)

(* C10: delete_folder of an existing folder F first persists the notes     *)
(* with no reference to F left, folders.json untouched, and then persists  *)
(* the folders without F, notes.json untouched; at neither point is F      *)
(* missing from folders.json while a persisted note refers to it.  For an  *)
(* unknown folder it answers not-found and writes nothing.                 *)
C10_NotesBeforeFolders ==
    [][\A h \in Handlers :
         /\ StartsDeleteFolder(h) =>
              /\ foldersFile' = foldersFile
              /\ NoReference(notesFile', The(path'[h]))
              /\ ~Dangling(notesFile', foldersFile', The(path'[h]))
         /\ EndsDeleteFolder(h) =>
              /\ notesFile' = notesFile
              /\ The(path[h]) \notin FileUuids(foldersFile')
              /\ ~Dangling(notesFile', foldersFile', The(path[h]))
         /\ (/\ pc' = pc
             /\ requests' = requests + 1
             /\ last'.call.op = "delete_folder"
             /\ The(last'.call.id) \notin Keys(LoadFolders(foldersFile))) =>
              /\ last'.response = NotFoundResponse
              /\ UNCHANGED fileVars]_vars

===========================================================================
